---------------------------- MODULE Spec2Model ----------------------------
(***************************************************************************)
(* Model of scripts/pipeline/select_and_register.py: the Candidate         *)
(* Evaluator (select_model) and the Promotion Decision (register_model)    *)
(* running against an experiment-tracking service with a model registry.   *)
(*                                                                         *)
(* The tracking service is the environment: its calls are atomic, each can *)
(* fail, and other callers can change stage labels.                        *)
(*                                                                         *)
(*   Spec        register_model called on runs of the destination          *)
(*               experiment, one call at a time, other callers acting      *)
(*               between the calls                                         *)
(*   SpecSelect  select_model called again and again                       *)
(*   SpecMain    the script: select_model, then register_model on the run  *)
(*               it returned                                               *)
(*   SpecRace    two invocations of register_model and the other callers   *)
(*               interleaving at every registry call                       *)
(***************************************************************************)
EXTENDS Integers, Sequences, FiniteSets, TLC

VARIABLES
    runs,       \* the destination (selection) experiment: run id = position
    registry,   \* the registered model's versions: version number = position
    proc,       \* per invocation: position in the script and its locals
    last        \* the last call of register_model that returned, while the
                \* registry is still as that call left it

vars == <<runs, registry, proc, last>>

(* ------------------------------ bounds -------------------------------- *)

MaxRmse == 2        \* error metrics range over 1..MaxRmse
MaxHpoRuns == 2     \* runs in the HPO experiment an invocation can find
MaxRuns == 2        \* runs the destination experiment can hold
MaxVersions == 2    \* versions the registry can hold

Procs == {1, 2}
Rmse == 1..MaxRmse

(* ------------------------- the script's tables ------------------------ *)

\* train_and_log_xgboost / train_and_log_train_random_forest_regressor set
\* this tag on the run they start.
XgbTag == "xgboost-regressor"
RfTag == "random-forest-regressor"

TRAIN_AND_LOG_FUNC == [t \in {XgbTag, RfTag} |-> t]

\* A tag the dispatch table does not know (any other string behaves alike).
OtherTag == "other"
Tags == {XgbTag, RfTag, OtherTag}

NoMetrics == [k \in {} |-> 0]

\* The script never reads a validation_rmse back: the model keeps that the
\* metric was logged, not its value.
Logged == "logged"

\* The metrics a training routine logs on the run it started.
LoggedMetrics(test_rmse) ==
    [k \in {"validation_rmse", "test_rmse"} |->
        IF k = "validation_rmse" THEN Logged ELSE test_rmse]

HasMetric(r, k) == k \in DOMAIN r.metrics

(* ------------------------ the tracking service ------------------------ *)

\* A version's stage label is one of "None", "Staging", "Production" and
\* "Archived".

\* client.search_runs(order_by=["metrics.<k> ASC"], max_results=n) over the
\* runs rs (all active): ascending metric, runs without the metric last,
\* ties by start time descending (the service's default secondary order).
Precedes(rs, k, i, j) ==
    LET hi == HasMetric(rs[i], k)
        hj == HasMetric(rs[j], k)
    IN  \/ hi /\ ~hj
        \/ hi /\ hj /\ rs[i].metrics[k] < rs[j].metrics[k]
        \/ hi /\ hj /\ rs[i].metrics[k] = rs[j].metrics[k] /\ i > j
        \/ ~hi /\ ~hj /\ i > j

Min2(a, b) == IF a < b THEN a ELSE b

SearchRuns(rs, k, n) ==
    LET ids == 1..Len(rs)
        rank(i) == Cardinality({j \in ids : Precedes(rs, k, j, i)})
        sorted == [x \in ids |-> CHOOSE i \in ids : rank(i) = x - 1]
    IN  SubSeq(sorted, 1, Min2(n, Len(rs)))

\* client.get_latest_versions(model_name, ['Production']): the newest
\* version holding the stage, as a list of at most one version number.
LatestVersionIn(reg, stage) ==
    LET vs == {v \in 1..Len(reg) : reg[v].stage = stage}
    IN  IF vs = {} THEN <<>>
        ELSE <<CHOOSE v \in vs : \A w \in vs : w <= v>>

GetLatestVersions(reg) == LatestVersionIn(reg, "Production")

\* What the lookup can answer.  "not_found": the registered model does not
\* exist yet (a RestException); "rest_error": the service answers with any
\* other error (a RestException too); "unreachable": no answer at all (an
\* MlflowException that is no RestException).
LookupOutcomes(reg) ==
    {"ok", "rest_error", "unreachable"} \cup
        (IF reg = <<>> THEN {"not_found"} ELSE {})

IsRestException(outcome) == outcome \in {"not_found", "rest_error"}

(* --------------------------- invocation state ------------------------- *)

\* pc, top, cand, production, production_rmse, model_version, rc and err are
\* the script's position, locals, result and uncaught error.  The others
\* record the call for the properties: how it was entered, the arguments of
\* the HPO search and the tags it returned, the size of the destination
\* experiment and the registry at entry, what the lookup answered, and
\* whether the call repeats the last one.
Idle ==
    [pc |-> "idle", entry |-> "none", number_top_runs |-> 0, hpo_size |-> 0,
     top |-> <<>>, src |-> <<>>, first |-> 0, cand |-> 0, again |-> "no",
     lookup |-> "none", production |-> <<>>, production_rmse |-> 0,
     model_version |-> 0, rc |-> FALSE, err |-> "none", before |-> <<>>]

NoLast == [cand |-> 0, rc |-> FALSE]

Active(p) == proc[p].pc # "idle"

\* Spec: an invocation starts, and the other callers act, only while no
\* invocation is under way.  SpecRace: no such restriction.
Quiet == \A q \in Procs : ~Active(q)

Set(p, rec) == proc' = [proc EXCEPT ![p] = rec]

Abort(p, e) == Set(p, [proc[p] EXCEPT !.pc = "aborted", !.err = e])

(* ------------------------ the HPO experiment -------------------------- *)

\* A run of the HPO experiment as train.py's objective functions log it: a
\* model tag and the metric rmse.  The selection script only reads that
\* experiment, so each invocation finds some content h of it.
HpoRun(tag, rmse) == [tag |-> tag, metrics |-> [k \in {"rmse"} |-> rmse]]

\* Two values of rmse give every order and the tie between two HPO runs.
HpoRmse == {1, 2}

HpoRuns == {HpoRun(t, x) : t \in Tags, x \in HpoRmse}

SeqsUpTo(S, n) == UNION {[1..m -> S] : m \in 0..n}

HpoExperiments == SeqsUpTo(HpoRuns, MaxHpoRuns)

\* select_model's search: the top number_top_runs runs by ascending rmse.
TopRuns(h, number_top_runs) ==
    LET ids == SearchRuns(h, "rmse", number_top_runs)
    IN  [x \in 1..Len(ids) |-> h[ids[x]]]

\* The values of --number_top_runs tried: below, at and above the size of
\* the HPO experiment.
TopRunsArgs == 1..(MaxHpoRuns + 1)

\* TopRuns tabulated over the inputs.
TopRunsOf == [h \in HpoExperiments, n \in TopRunsArgs |-> TopRuns(h, n)]

(* ---------------------------- select_model ---------------------------- *)

\* Room in the destination experiment for the runs an invocation starting
\* now can create (the model's bound).
Room(nruns) == Len(runs) + nruns <= MaxRuns

\* entry: "main" when __main__ runs the script, "select_model" when the
\* function is called on its own.
SearchTopRuns(p, entry, h, number_top_runs) ==
    LET top == TopRunsOf[h, number_top_runs]
        tags == [x \in 1..Len(top) |-> top[x].tag]
    IN  /\ proc[p].pc = "idle"
        /\ Room(Len(top))
        /\ Set(p, [Idle EXCEPT !.pc = "train", !.entry = entry, !.top = tags,
                               !.number_top_runs = number_top_runs,
                               !.hpo_size = Len(h), !.src = tags,
                               !.first = Len(runs), !.before = registry])
        /\ UNCHANGED <<runs, registry, last>>

\* What one call of a training routine can come to: the splits cannot be
\* loaded (before the run is started), the fit fails inside the run, or
\* both metrics are logged.
TrainOutcomes ==
    {<<"io_error", 0>>, <<"fit_error", 0>>} \cup {<<"ok", t>> : t \in Rmse}

\* mlflow.start_run() + set_tag('model', ...): the run a routine starts.
StartRun(tag) == [tag |-> tag, metrics |-> NoMetrics]

\* The run as the routine for `tag` leaves it after logging its metrics.
\* Both routines setting the tag of the first.
FinishedRunXgbTag(tag, test_rmse) ==
    [tag |-> XgbTag, metrics |-> LoggedMetrics(test_rmse)]

FinishedRun(tag, test_rmse) ==
    [tag |-> tag, metrics |-> LoggedMetrics(test_rmse)]

\* One turn of `for run in runs: TRAIN_AND_LOG_FUNC[tag](input_dir, params)`.
TrainAndLog(p, o) ==
    LET tag == Head(proc[p].top)
    IN  /\ proc[p].pc = "train"
        /\ proc[p].top # <<>>
        /\ IF tag \notin DOMAIN TRAIN_AND_LOG_FUNC
           THEN /\ Abort(p, "KeyError")
                /\ UNCHANGED runs
           ELSE CASE o[1] = "io_error" ->
                       /\ Abort(p, "IOError")
                       /\ UNCHANGED runs
                  [] o[1] = "fit_error" ->
                       /\ Abort(p, "FitError")
                       /\ runs' = Append(runs, StartRun(TRAIN_AND_LOG_FUNC[tag]))
                  [] OTHER ->
                       /\ Set(p, [proc[p] EXCEPT !.top = Tail(proc[p].top)])
                       /\ runs' = Append(runs,
                              FinishedRun(TRAIN_AND_LOG_FUNC[tag], o[2]))
        /\ UNCHANGED <<registry, last>>

\* search_runs(select experiment, max_results=1, order_by test_rmse ASC).
BestRun(rs) == SearchRuns(rs, "test_rmse", 1)

\* select_model's end: `best_run = client.search_runs(...)[0]` is returned;
\* __main__ hands it to register_model.
SelectBest(p) ==
    /\ proc[p].pc = "train"
    /\ proc[p].top = <<>>
    /\ IF BestRun(runs) = <<>>
       THEN Abort(p, "IndexError")
       ELSE Set(p, [proc[p] EXCEPT
                !.pc = IF proc[p].entry = "main" THEN "lookup" ELSE "done",
                !.cand = BestRun(runs)[1]])
    /\ UNCHANGED <<runs, registry, last>>

(* --------------------------- register_model --------------------------- *)

\* Entry of register_model(run, ...) called on its own, with a run of the
\* destination experiment as the candidate.
CallRegisterModel(p, r) ==
    /\ proc[p].pc = "idle"
    /\ r \in 1..Len(runs)
    /\ Set(p, [Idle EXCEPT !.pc = "lookup", !.entry = "register_model",
                           !.cand = r, !.first = Len(runs),
                           !.before = registry,
                           !.again = IF last.cand # r THEN "no"
                                     ELSE IF last.rc THEN "after_true"
                                     ELSE "after_false"])
    /\ last' = NoLast
    /\ UNCHANGED <<runs, registry>>

\* `except mlflow.exceptions.RestException`: the outcomes the handler takes
\* for "no production model".
Caught(outcome) == IsRestException(outcome)

\* try: production = client.get_latest_versions(model_name, ['Production'])
\* except RestException: production = []
Lookup(p, o) ==
    /\ proc[p].pc = "lookup"
    /\ o \in LookupOutcomes(registry)
    /\ IF o = "ok"
       THEN Set(p, [proc[p] EXCEPT !.pc = "compare", !.lookup = o,
                                   !.production = GetLatestVersions(registry)])
       ELSE IF Caught(o)
       THEN Set(p, [proc[p] EXCEPT !.pc = "compare", !.lookup = o,
                                   !.production = <<>>])
       ELSE Set(p, [proc[p] EXCEPT !.pc = "aborted", !.lookup = o,
                                   !.err = "MlflowException"])
    /\ UNCHANGED <<runs, registry, last>>

\* mlflow.register_model(model_uri=f"runs:/{run_id}/model", name, tags): the
\* service appends a version backed by the run, in stage None.
NewVersion(run_id) == [run_id |-> run_id, stage |-> "None"]

BetterOrEqual(candidate_rmse, production_rmse) ==
    candidate_rmse <= production_rmse

\* The decision rule of line 135, once both metrics are read.
Better(candidate_rmse, production_rmse) == candidate_rmse < production_rmse

\* The same with the registration moved before the decision: the version is
\* registered either way, and staged only on the promoting branch.
CompareRegistersFirst(p, get_run_ok) ==
    LET me == proc[p]
        production == me.production
        production_run == runs[registry[production[Len(production)]].run_id]
        run == runs[me.cand]
        registered == Append(registry, NewVersion(me.cand))
    IN  /\ me.pc = "compare"
        /\ Len(registry) <= MaxVersions
        /\ UNCHANGED <<runs, last>>
        /\ IF production = <<>>
           THEN /\ Set(p, [me EXCEPT !.pc = "transition",
                                     !.model_version = Len(registered)])
                /\ registry' = registered
           ELSE IF ~get_run_ok
                   \/ ~HasMetric(production_run, "test_rmse")
                   \/ ~HasMetric(run, "test_rmse")
           THEN /\ Abort(p, "Error")
                /\ UNCHANGED registry
           ELSE /\ registry' = registered
                /\ IF Better(run.metrics["test_rmse"],
                             production_run.metrics["test_rmse"])
                   THEN Set(p, [me EXCEPT !.pc = "transition",
                                          !.model_version = Len(registered)])
                   ELSE Set(p, [me EXCEPT !.pc = "done", !.rc = FALSE])

\* if production: production_rmse = get_run(production[-1].run_id)...['test_rmse']
\* if not production or run.data.metrics['test_rmse'] < production_rmse: ...
\* return False
Compare(p, get_run_ok) ==
    LET me == proc[p]
        production == me.production
        production_run == runs[registry[production[Len(production)]].run_id]
        run == runs[me.cand]
    IN  /\ me.pc = "compare"
        /\ IF production = <<>>
           THEN Set(p, [me EXCEPT !.pc = "register"])
           ELSE IF ~get_run_ok
           THEN Abort(p, "MlflowException")
           ELSE IF ~HasMetric(production_run, "test_rmse")
                   \/ ~HasMetric(run, "test_rmse")
           THEN Abort(p, "KeyError")
           ELSE LET production_rmse == production_run.metrics["test_rmse"]
                IN  IF Better(run.metrics["test_rmse"], production_rmse)
                    THEN Set(p, [me EXCEPT !.pc = "register",
                                           !.production_rmse = production_rmse])
                    ELSE Set(p, [me EXCEPT !.pc = "done", !.rc = FALSE,
                                           !.production_rmse = production_rmse])
        /\ UNCHANGED <<runs, registry, last>>

\* (Len(registry) < MaxVersions is the model's bound.)
Register(p, ok) ==
    /\ proc[p].pc = "register"
    /\ Len(registry) < MaxVersions
    /\ IF ok
       THEN /\ registry' = Append(registry, NewVersion(proc[p].cand))
            /\ Set(p, [proc[p] EXCEPT !.pc = "transition",
                                      !.model_version = Len(registry) + 1])
       ELSE /\ Abort(p, "MlflowException")
            /\ UNCHANGED registry
    /\ UNCHANGED <<runs, last>>

\* client.transition_model_version_stage(name, version, stage='Staging'):
\* the service relabels that one version (archive_existing_versions is off).
TargetStageProduction == "Production"

TargetStage == "Staging"

\* The same call with archive_existing_versions on.
TransitionStageArchiving(reg, version, stage) ==
    [w \in 1..Len(reg) |->
        IF w = version THEN [reg[w] EXCEPT !.stage = stage]
        ELSE IF reg[w].stage = stage
        THEN [reg[w] EXCEPT !.stage = "Archived"]
        ELSE reg[w]]

TransitionStage(reg, version, stage) == [reg EXCEPT ![version].stage = stage]

Transition(p, ok) ==
    /\ proc[p].pc = "transition"
    /\ IF ok
       THEN /\ registry' = TransitionStage(registry, proc[p].model_version,
                                           TargetStage)
            /\ Set(p, [proc[p] EXCEPT !.pc = "done", !.rc = TRUE])
       ELSE /\ Abort(p, "MlflowException")
            /\ UNCHANGED registry
    /\ UNCHANGED <<runs, last>>

\* The process ends: `sys.exit(0)` after the print, or the uncaught error.
Exit(p) ==
    /\ proc[p].pc \in {"done", "aborted"}
    /\ Set(p, Idle)
    /\ last' = IF proc[p].pc = "done" /\ proc[p].entry = "register_model"
               THEN [cand |-> proc[p].cand, rc |-> proc[p].rc]
               ELSE NoLast
    /\ UNCHANGED <<runs, registry>>

(* --------------------------- other callers ---------------------------- *)

\* Staging -> Production by another caller; the service keeps one
\* Production version, archiving the one that held the label.
ExternalPromote(v) ==
    /\ v \in 1..Len(registry)
    /\ registry[v].stage = "Staging"
    /\ registry' = [w \in 1..Len(registry) |->
                      IF w = v THEN [registry[w] EXCEPT !.stage = "Production"]
                      ELSE IF registry[w].stage = "Production"
                      THEN [registry[w] EXCEPT !.stage = "Archived"]
                      ELSE registry[w]]
    /\ last' = NoLast
    /\ UNCHANGED <<runs, proc>>

\* Staging -> Archived or Production -> Archived by another caller.
ExternalArchive(v) ==
    /\ v \in 1..Len(registry)
    /\ registry[v].stage \in {"Staging", "Production"}
    /\ registry' = [registry EXCEPT ![v].stage = "Archived"]
    /\ last' = NoLast
    /\ UNCHANGED <<runs, proc>>

(* --------------------------- specifications --------------------------- *)

\* The process the one-at-a-time specifications run.
Main == 1

Faults == BOOLEAN

AllLookupOutcomes == {"ok", "not_found", "rest_error", "unreachable"}

SelectSteps(p) ==
    \/ \E o \in TrainOutcomes : TrainAndLog(p, o)
    \/ SelectBest(p)

RegisterSteps(p) ==
    \/ \E o \in AllLookupOutcomes : Lookup(p, o)
    \/ \E ok \in Faults : Compare(p, ok)
    \/ \E ok \in Faults : Register(p, ok)
    \/ \E ok \in Faults : Transition(p, ok)

\* Another caller relabels a version; `when` says when it may.
OtherPromotes(when) == \E v \in 1..MaxVersions : when /\ ExternalPromote(v)

OtherArchives(when) == \E v \in 1..MaxVersions : when /\ ExternalArchive(v)

\* The runs register_model can be handed: finished by a training routine,
\* or left without metrics by a fit that failed.  register_model reads no
\* tag, so one model family stands for both.
CandidateRuns == {StartRun(XgbTag)} \cup {FinishedRun(XgbTag, x) : x \in Rmse}

Stores == SeqsUpTo(CandidateRuns, MaxRuns) \ {<<>>}

InitRegister ==
    /\ runs \in Stores
    /\ registry = <<>>
    /\ proc = [p \in Procs |-> Idle]
    /\ last = NoLast

Next ==
    \/ \E r \in 1..MaxRuns : CallRegisterModel(Main, r)
    \/ RegisterSteps(Main)
    \/ Exit(Main)
    \/ OtherPromotes(Quiet)
    \/ OtherArchives(Quiet)

Spec == InitRegister /\ [][Next]_vars

Init ==
    /\ runs = <<>>
    /\ registry = <<>>
    /\ proc = [p \in Procs |-> Idle]
    /\ last = NoLast

NextSelect ==
    \/ \E h \in HpoExperiments, n \in TopRunsArgs :
          SearchTopRuns(Main, "select_model", h, n)
    \/ SelectSteps(Main)
    \/ Exit(Main)

SpecSelect == Init /\ [][NextSelect]_vars

NextMain ==
    \/ \E h \in HpoExperiments, n \in TopRunsArgs :
          SearchTopRuns(Main, "main", h, n)
    \/ SelectSteps(Main)
    \/ RegisterSteps(Main)
    \/ Exit(Main)
    \/ OtherPromotes(Quiet)
    \/ OtherArchives(Quiet)

SpecMain == Init /\ [][NextMain]_vars

NextRace ==
    \/ \E p \in Procs, r \in 1..MaxRuns : CallRegisterModel(p, r)
    \/ \E p \in Procs : RegisterSteps(p)
    \/ OtherPromotes(TRUE)
    \/ OtherArchives(TRUE)

SpecRace == InitRegister /\ [][NextRace]_vars

(* ------------------------------ properties ---------------------------- *)

Returned(p) == proc[p].pc = "done"

\* The run a call of register_model was handed.
Candidate(p) == runs[proc[p].cand]

ProductionVersions(reg) == {v \in 1..Len(reg) : reg[v].stage = "Production"}

NoProduction(reg) == ProductionVersions(reg) = {}

\* The candidate's test_rmse is strictly lower than that of the run behind
\* the Production version.
StrictlyLower(reg, run) ==
    /\ HasMetric(run, "test_rmse")
    /\ \A v \in ProductionVersions(reg) :
          /\ HasMetric(runs[reg[v].run_id], "test_rmse")
          /\ run.metrics["test_rmse"] < runs[reg[v].run_id].metrics["test_rmse"]

\* The lookup answered with the registry's content, or with not-found while
\* the model had no version.
LookupSucceeded(p) == proc[p].lookup \in {"ok", "not_found"}

\* The call has taken the promoting branch of line 135.
Promotes(p) ==
    \/ proc[p].pc \in {"register", "transition"}
    \/ Returned(p) /\ proc[p].rc

Decided(p) == proc[p].pc \in {"register", "transition", "done"}

\* The version a promoting call leaves behind.
Staged(run_id) == [run_id |-> run_id, stage |-> "Staging"]

\* C1: once the baseline lookup has succeeded, register_model takes the
\* promoting branch (and, when it returns, returns true) if and only if no
\* Production version exists or the candidate's test_rmse is strictly lower
\* than the Production run's; at equal test_rmse it returns false.
C1_PromoteIffStrictlyBetter ==
    \A p \in Procs :
        Decided(p) /\ LookupSucceeded(p) =>
            (Promotes(p) <=>
                \/ NoProduction(proc[p].before)
                \/ StrictlyLower(proc[p].before, Candidate(p)))

\* C1's case: a Production version exists, the candidate's test_rmse equals
\* its run's, and the call has returned false.
C1_EqualReturnsFalse ==
    \E p \in Procs :
        /\ Returned(p) /\ ~proc[p].rc /\ LookupSucceeded(p)
        /\ \E v \in ProductionVersions(proc[p].before) :
              /\ proc[p].before[v].run_id # proc[p].cand
              /\ Candidate(p).metrics["test_rmse"]
                    = runs[proc[p].before[v].run_id].metrics["test_rmse"]

\* C2: without a Production version at the call, register_model never
\* returns false, and when it returns the registry is the one before the
\* call plus one version, backed by the candidate and in stage Staging.
C2_NoBaselineRegistersOne ==
    \A p \in Procs :
        Returned(p) /\ NoProduction(proc[p].before) =>
            /\ proc[p].rc
            /\ registry = Append(proc[p].before, Staged(proc[p].cand))

\* C2's case: a call that found versions, none of them in Production, has
\* returned.
C2_NoBaselineReturned ==
    \E p \in Procs :
        /\ Returned(p)
        /\ proc[p].before # <<>>
        /\ NoProduction(proc[p].before)
        /\ proc[p].lookup = "ok"

\* C3: when register_model returns false the registry is as it was before
\* the call; when it returns true the registry is the one before the call
\* plus the new version, in stage Staging.
C3_FalseLeavesRegistry ==
    \A p \in Procs :
        Returned(p) =>
            IF proc[p].rc
            THEN registry = Append(proc[p].before, Staged(proc[p].cand))
            ELSE registry = proc[p].before

\* C3's case: a call has returned false on a registry that holds versions
\* in several stages.
C3_ReturnedFalse ==
    \E p \in Procs :
        /\ Returned(p) /\ ~proc[p].rc
        /\ Len(registry) >= 2

\* C4: a lookup failure other than the registry's not-found signal ends
\* the call with the error: the call goes no further.
C4_OnlyNotFoundRecovered ==
    \A p \in Procs :
        proc[p].lookup \in {"rest_error", "unreachable"} =>
            proc[p].pc = "aborted"

\* A step of an invocation (the other callers leave proc alone).
InvocationStep == proc' # proc

\* The invocation taking the step.
Stepping(p) == proc'[p] # proc[p]

\* C5: a step of register_model keeps every version there was, with its run
\* and, but for the version the call itself registered going from None to
\* Staging, its stage; a version it adds is in stage None; so no step sets
\* Production or Archived, and the Production versions stay the same.
C5_StageFrame ==
    InvocationStep =>
        /\ Len(registry') >= Len(registry)
        /\ \A v \in 1..Len(registry) :
              /\ registry'[v].run_id = registry[v].run_id
              /\ \/ registry'[v].stage = registry[v].stage
                 \/ /\ registry[v].stage = "None"
                    /\ registry'[v].stage = "Staging"
                    /\ \E p \in Procs :
                          Stepping(p) /\ proc[p].model_version = v
        /\ \A v \in (Len(registry) + 1)..Len(registry') :
              registry'[v].stage = "None"
        /\ ProductionVersions(registry') = ProductionVersions(registry)

C5_OnlyNoneToStaging == [][C5_StageFrame]_vars

\* C5's case: a call has registered and staged a version beside a
\* Production version that was there before, and that still is.
C5_StagedBesideProduction ==
    \E p \in Procs :
        /\ Returned(p) /\ proc[p].rc
        /\ ~NoProduction(proc[p].before)
        /\ ProductionVersions(registry) = ProductionVersions(proc[p].before)
        /\ registry[proc[p].model_version].stage = "Staging"

\* C9 as stated: a call that repeats the last call (same candidate, the
\* registry as that call left it) leaves the registry as it found it.
C9_SecondCallAddsNothing ==
    \A p \in Procs :
        Returned(p) /\ proc[p].again # "no" => registry = proc[p].before

\* C9 amended: a call that repeats a call that returned false, and whose
\* own lookup succeeds, returns false and leaves the registry as it found
\* it.
C9_IdempotentOnFalsePath ==
    \A p \in Procs :
        Returned(p) /\ proc[p].again = "after_false" /\ LookupSucceeded(p) =>
            ~proc[p].rc /\ registry = proc[p].before

\* C9's case: a call repeating one that returned false has returned.
C9_RepeatedAfterFalse ==
    \E p \in Procs :
        Returned(p) /\ proc[p].again = "after_false" /\ LookupSucceeded(p)

\* The runs of the destination experiment an invocation has created.
NewRuns(p) == (proc[p].first + 1)..Len(runs)

\* C6: while select_model evaluates (no unknown tag, no failure so far) it
\* has created one run per source run done, and, when all are done,
\* min(number_top_runs, size of the HPO experiment) runs in all; the i-th
\* new run carries the model tag of the i-th source run and exactly the
\* metrics validation_rmse and test_rmse.
C6_OneRunPerCandidate ==
    \A p \in Procs :
        proc[p].entry = "select_model" /\ proc[p].pc \in {"train", "done"} =>
            LET done == Len(proc[p].src) - Len(proc[p].top)
            IN  /\ Len(runs) = proc[p].first + done
                /\ Returned(p) =>
                      done = Min2(proc[p].number_top_runs, proc[p].hpo_size)
                /\ \A i \in 1..done :
                      /\ runs[proc[p].first + i].tag = proc[p].src[i]
                      /\ DOMAIN runs[proc[p].first + i].metrics
                            = {"validation_rmse", "test_rmse"}

\* C6's case: select_model has returned after evaluating both runs, of
\* different families, of an HPO experiment smaller than number_top_runs.
C6_TwoFamiliesEvaluated ==
    \E p \in Procs :
        /\ proc[p].entry = "select_model" /\ Returned(p)
        /\ Len(proc[p].src) = 2
        /\ proc[p].src[1] # proc[p].src[2]
        /\ proc[p].number_top_runs > proc[p].hpo_size

\* C7: the run handed to register_model is one this invocation created and
\* has the least test_rmse among those.
C7_BestIsNewRun ==
    \A p \in Procs :
        proc[p].entry = "main" /\ proc[p].pc = "lookup" =>
            /\ proc[p].cand \in NewRuns(p)
            /\ HasMetric(Candidate(p), "test_rmse")
            /\ \A r \in NewRuns(p) :
                  Candidate(p).metrics["test_rmse"]
                     <= runs[r].metrics["test_rmse"]

\* C8: an invocation that ended with an error has left no run in the
\* destination experiment and no version in the registry.
C8_AbortLeavesNothing ==
    \A p \in Procs :
        proc[p].pc = "aborted" =>
            /\ Len(runs) = proc[p].first
            /\ registry = proc[p].before

\* C10: in a race each invocation decides on the baseline it read at its
\* own lookup, whatever the registry holds by then: one that has taken the
\* promoting branch read no baseline or a baseline strictly worse than its
\* candidate, and its registration waits for no other invocation or caller.
C10_DecidesOnItsOwnLookup ==
    \A p \in Procs :
        /\ Promotes(p) =>
              \/ proc[p].production = <<>>
              \/ Candidate(p).metrics["test_rmse"] < proc[p].production_rmse
        /\ proc[p].pc = "register" /\ Len(registry) < MaxVersions =>
              ENABLED Register(p, TRUE)

\* C10's case: two invocations both looked up while the model had no
\* version, both registered and staged a version, another caller promoted
\* the first one's version before the second registered, and the second
\* one's version, in Staging, is not strictly better than that Production
\* version.
C10_BothStagedOnStaleLookup ==
    \E p, q \in Procs :
        /\ p # q
        /\ Returned(p) /\ proc[p].rc /\ proc[p].lookup = "not_found"
        /\ Returned(q) /\ proc[q].rc /\ proc[q].lookup = "not_found"
        /\ proc[p].model_version < proc[q].model_version
        /\ registry[proc[p].model_version].stage = "Production"
        /\ registry[proc[q].model_version].stage = "Staging"
        /\ HasMetric(Candidate(p), "test_rmse")
        /\ HasMetric(Candidate(q), "test_rmse")
        /\ Candidate(q).metrics["test_rmse"] > Candidate(p).metrics["test_rmse"]

====
